---- MODULE Spec2Model ----
(***************************************************************************)
(* Multi-source meme trend aggregator (src/worker/index.js, the second     *)
(* worker of the file, lines 218-1163): the GET /trends handler with its   *)
(* cache-aside gateway, the five source adapters, the normalizer, the      *)
(* merge-and-score aggregator and the Know Your Meme enrichment stage.     *)
(*                                                                         *)
(* Strings are sequences of one-character strings.  Scores that the code   *)
(* keeps as doubles are kept exactly: per-source scores are integers       *)
(* (the code rounds them), aggregateScore is kept in tenths of a point     *)
(* because the enrichment boost (x1.2) is not rounded by the code.         *)
(***************************************************************************)
EXTENDS Integers, Sequences, FiniteSets, TLC

(***************************************************************************)
(* Characters and strings                                                  *)
(***************************************************************************)
LowerChars == <<"a","b","c","d","e","f","g","h","i","j","k","l","m",
                "n","o","p","q","r","s","t","u","v","w","x","y","z">>

UpperChars == <<"A","B","C","D","E","F","G","H","I","J","K","L","M",
                "N","O","P","Q","R","S","T","U","V","W","X","Y","Z">>

DigitChars == <<"0","1","2","3","4","5","6","7","8","9">>

Range(s) == {s[i] : i \in DOMAIN s}

\* String.prototype.toLowerCase, one character
LowerChar(c) ==
    IF c \in Range(UpperChars)
    THEN LowerChars[CHOOSE i \in DOMAIN UpperChars : UpperChars[i] = c]
    ELSE c

\* String.prototype.toLowerCase
toLowerCase(s) == [i \in DOMAIN s |-> LowerChar(s[i])]

\* the character class [a-z0-9]
IsLowerAlnum(c) == c \in Range(LowerChars) \cup Range(DigitChars)

\* .replace(/[^a-z0-9]/g, '')
StripNonAlnum(s) == SelectSeq(s, IsLowerAlnum)

\* .replace(/^#/, '')
StripLeadingHash(s) == IF Len(s) > 0 /\ s[1] = "#" THEN Tail(s) ELSE s

\* String.prototype.includes
Includes(hay, needle) ==
    \E i \in 0..(Len(hay) - Len(needle)) :
        \A j \in 1..Len(needle) : hay[i + j] = needle[j]

\* Array.prototype.join(' ')
RECURSIVE JoinSpace(_)
JoinSpace(strs) ==
    IF Len(strs) = 0 THEN <<>>
    ELSE IF Len(strs) = 1 THEN strs[1]
    ELSE strs[1] \o <<" ">> \o JoinSpace(Tail(strs))

(***************************************************************************)
(* Tables                                                                  *)
(***************************************************************************)
\* the five source tags, in the order the handler concatenates their trends
Sources == <<"tiktok", "google", "reddit", "twitter", "4chan">>

SourceSet == Range(Sources)

\* Object.entries(CATEGORY_KEYWORDS) iterates in declaration order
CategoryOrder == <<"animal", "ai", "absurdist", "crypto">>

CATEGORY_KEYWORDS == [
  animal |-> <<
    <<"d","o","g">>, <<"c","a","t">>, <<"p","e","n","g","u","i","n">>, <<"h","i","p","p","o">>,
    <<"f","r","o","g">>, <<"p","e","p","e">>, <<"d","o","g","e">>, <<"s","h","i","b","a">>,
    <<"i","n","u">>, <<"m","o","o">>, <<"w","i","f">>, <<"m","o","o","d","e","n","g">>,
    <<"p","a","n","d","a">>, <<"b","e","a","r">>, <<"b","i","r","d">>, <<"f","i","s","h">>,
    <<"w","h","a","l","e">>, <<"m","o","n","k","e","y">>, <<"a","p","e">>, <<"r","a","t">>,
    <<"h","a","m","s","t","e","r">>, <<"d","u","c","k">>, <<"c","h","i","c","k","e","n">>,
    <<"c","o","w">>, <<"p","i","g">>, <<"h","o","r","s","e">>, <<"b","u","n","n","y">>,
    <<"r","a","b","b","i","t">>, <<"t","u","r","t","l","e">>, <<"c","r","o","c">>,
    <<"g","a","t","o","r">>, <<"s","n","a","k","e">>
  >>,
  ai |-> <<
    <<"a","i">>, <<"g","p","t">>, <<"c","l","a","u","d","e">>, <<"b","o","t">>,
    <<"a","g","e","n","t">>, <<"t","e","r","m","i","n","a","l">>, <<"g","o","a","t">>,
    <<"t","r","u","t","h">>, <<"c","h","a","t","g","p","t">>, <<"o","p","e","n","a","i">>,
    <<"l","l","m">>, <<"n","e","u","r","a","l">>, <<"m","a","c","h","i","n","e">>,
    <<"r","o","b","o","t">>, <<"a","u","t","o">>
  >>,
  absurdist |-> <<
    <<"b","r","a","i","n","r","o","t">>, <<"s","k","i","b","i","d","i">>, <<"s","i","g","m","a">>,
    <<"o","h","i","o">>, <<"r","i","z","z">>, <<"g","y","a","t","t">>, <<"d","e","l","u","l","u">>,
    <<"u","n","h","i","n","g","e","d">>, <<"c","u","r","s","e","d">>, <<"c","h","a","o","s">>,
    <<"r","a","n","d","o","m">>, <<"w","e","i","r","d">>, <<"s","u","s">>, <<"s","l","a","y">>,
    <<"a","u","r","a">>, <<"n","p","c">>, <<"m","e","w","i","n","g">>, <<"b","a","s","e","d">>
  >>,
  crypto |-> <<
    <<"c","o","i","n">>, <<"t","o","k","e","n">>, <<"m","o","o","n">>, <<"h","o","d","l">>,
    <<"d","i","a","m","o","n","d">>, <<"h","a","n","d","s">>, <<"p","u","m","p">>, <<"r","u","g">>,
    <<"d","e","g","e","n">>, <<"w","a","g","m","i">>, <<"n","g","m","i">>, <<"g","m">>,
    <<"s","o","l","a","n","a">>, <<"s","o","l">>, <<"e","t","h">>, <<"b","t","c">>,
    <<"c","r","y","p","t","o">>, <<"w","e","b","3">>, <<"n","f","t">>,
    <<"m","e","m","e","c","o","i","n">>
  >>
]

\* SOURCE_WEIGHTS in hundredths; a tag outside the table weighs 0.1
SOURCE_WEIGHTS(source) ==
    CASE source = "twitter" -> 30
      [] source = "reddit"  -> 25
      [] source = "tiktok"  -> 20
      [] source = "google"  -> 15
      [] source = "4chan"   -> 10
      [] OTHER              -> 10

(***************************************************************************)
(* Arithmetic                                                              *)
(***************************************************************************)
Min(a, b) == IF a < b THEN a ELSE b

Max(a, b) == IF a > b THEN a ELSE b

\* Math.round(num / den) for num >= 0, den > 0: floor(x + 0.5)
RoundDiv(num, den) == (2 * num + den) \div (2 * den)

\* Math.log10 on the exact powers of ten (the inputs of the model are
\* chosen so that score + 1 is a power of ten)
RECURSIVE Log10(_)
Log10(n) == IF n < 10 THEN 0 ELSE 1 + Log10(n \div 10)

(***************************************************************************)
(* Normalizer                                                              *)
(***************************************************************************)
\* detectCategory(name, keywords): first category, in declaration order,
\* one of whose terms occurs in [name, ...keywords].join(' ').toLowerCase()
CategoryMatches(allTerms, category) ==
    \E i \in DOMAIN CATEGORY_KEYWORDS[category] :
        Includes(allTerms, CATEGORY_KEYWORDS[category][i])

\* variant: the scan keeps going and the last category that matches wins
detectCategoryLastMatch(name, keywords) ==
    LET allTerms == toLowerCase(JoinSpace(<<name>> \o keywords))
        hits == {i \in DOMAIN CategoryOrder : CategoryMatches(allTerms, CategoryOrder[i])}
    IN  IF hits = {} THEN "unknown"
        ELSE CategoryOrder[CHOOSE i \in hits : \A j \in hits : i >= j]

detectCategory(name, keywords) ==
    LET allTerms == toLowerCase(JoinSpace(<<name>> \o keywords))
        hits == {i \in DOMAIN CategoryOrder : CategoryMatches(allTerms, CategoryOrder[i])}
    IN  IF hits = {} THEN "unknown"
        ELSE CategoryOrder[CHOOSE i \in hits : \A j \in hits : i <= j]

\* variant: the label is not lowercased before the filter
identityKeyCaseSensitive(trend) ==
    LET label == IF trend.hashtag # <<>> THEN trend.hashtag ELSE trend.displayName
    IN  StripNonAlnum(StripLeadingHash(label))

\* the identity key: (hashtag || displayName || '').replace(/^#/, '')
\*                   .toLowerCase().replace(/[^a-z0-9]/g, '')
identityKey(trend) ==
    LET label == IF trend.hashtag # <<>> THEN trend.hashtag ELSE trend.displayName
    IN  StripNonAlnum(toLowerCase(StripLeadingHash(label)))

\* variant: the hashtag boost is an else branch of the cashtag boost
sourceScoreSingleBoost(trend, source) ==
    CASE source = "tiktok" ->
           LET sum == trend.growth5h + trend.growth24h + trend.growth7d
           IN  IF sum <= 0 THEN 0 ELSE Min(100, RoundDiv(sum, 30))
      [] source = "google" -> Max(0, 100 - trend.rank * 4)
      [] source = "reddit" ->
           LET subredditCount == IF trend.subreddits = 0 THEN 1 ELSE trend.subreddits
               base == Min(100, Log10(trend.redditScore + 1) * 20)
           IN  Min(100, RoundDiv(base * (5 + (subredditCount - 1)), 5))
      [] source = "twitter" ->
           LET base == Max(0, 100 - trend.rank * 3)
               c == IF trend.isCashtag THEN 13 ELSE 10
               h == IF trend.isHashtag /\ ~trend.isCashtag THEN 11 ELSE 10
           IN  Min(100, RoundDiv(base * c * h, 100))
      [] source = "4chan" ->
           LET base == Min(100, Log10(trend.chanReplies + 1) * 30)
               b == IF trend.chanImages > 10 THEN 12 ELSE 10
           IN  Min(100, RoundDiv(base * b, 10))
      [] OTHER -> 50

\* the per-source score of normalizeTrend, already rounded (Math.round)
sourceScore(trend, source) ==
    CASE source = "tiktok" ->
           LET sum == trend.growth5h + trend.growth24h + trend.growth7d
           IN  IF sum <= 0 THEN 0 ELSE Min(100, RoundDiv(sum, 30))
      [] source = "google" -> Max(0, 100 - trend.rank * 4)
      [] source = "reddit" ->
           LET subredditCount == IF trend.subreddits = 0 THEN 1 ELSE trend.subreddits
               base == Min(100, Log10(trend.redditScore + 1) * 20)
           IN  Min(100, RoundDiv(base * (5 + (subredditCount - 1)), 5))
      [] source = "twitter" ->
           LET base == Max(0, 100 - trend.rank * 3)
               c == IF trend.isCashtag THEN 13 ELSE 10
               h == IF trend.isHashtag THEN 11 ELSE 10
           IN  Min(100, RoundDiv(base * c * h, 100))
      [] source = "4chan" ->
           LET base == Min(100, Log10(trend.chanReplies + 1) * 30)
               b == IF trend.chanImages > 10 THEN 12 ELSE 10
           IN  Min(100, RoundDiv(base * b, 10))
      [] OTHER -> 50

normalizeTrend(trend, source) ==
    LET name == identityKey(trend)
        score == sourceScore(trend, source)
    IN  [ name           |-> name,
          displayName    |-> IF trend.displayName # <<>> THEN trend.displayName
                             ELSE IF trend.hashtag # <<>> THEN trend.hashtag
                             ELSE <<"#">> \o name,
          sources        |-> <<source>>,
          scores         |-> (source :> score),
          aggregateScore |-> 10 * score,
          category       |-> detectCategory(name, trend.keywords),
          memeStatus     |-> "unknown",
          views          |-> trend.views,
          growth5h       |-> trend.growth5h,
          growth24h      |-> trend.growth24h,
          growth7d       |-> trend.growth7d,
          description    |-> trend.description,
          keywords       |-> trend.keywords,
          articles       |-> trend.articles ]

\* items.map(t => normalizeTrend(t, source))
normalizeAll(items, source) == [i \in DOMAIN items |-> normalizeTrend(items[i], source)]

(***************************************************************************)
(* Aggregator                                                              *)
(***************************************************************************)
\* variant: the incoming sources are pushed without the includes test
mergeSourcesAlwaysPush(existing, incoming) ==
    existing \o incoming

\* for (const source of trend.sources)
\*   if (!existing.sources.includes(source)) existing.sources.push(source)
RECURSIVE mergeSources(_, _)
mergeSources(existing, incoming) ==
    IF incoming = <<>> THEN existing
    ELSE mergeSources(IF Head(incoming) \in Range(existing) THEN existing
                      ELSE Append(existing, Head(incoming)),
                      Tail(incoming))

\* existing.scores[source] = score, for every entry of trend.scores
mergeScores(existing, incoming) ==
    [s \in DOMAIN existing \cup DOMAIN incoming |->
        IF s \in DOMAIN incoming THEN incoming[s] ELSE existing[s]]

\* [...new Set(list)]: first occurrences, in order
RECURSIVE uniqueSeq(_)
uniqueSeq(list) ==
    IF list = <<>> THEN <<>>
    ELSE LET init == uniqueSeq(SubSeq(list, 1, Len(list) - 1))
             last == list[Len(list)]
         IN  IF last \in Range(init) THEN init ELSE Append(init, last)

\* variant: the growth figures of duplicates are added up
mergeIntoSum(existing, trend) ==
    [ existing EXCEPT
        !.sources     = mergeSources(existing.sources, trend.sources),
        !.scores      = mergeScores(existing.scores, trend.scores),
        !.views       = Max(existing.views, trend.views),
        !.growth5h    = Max(existing.growth5h, trend.growth5h),
        !.growth24h   = existing.growth24h + trend.growth24h,
        !.growth7d    = Max(existing.growth7d, trend.growth7d),
        !.keywords    = uniqueSeq(existing.keywords \o trend.keywords),
        !.articles    = IF Len(trend.articles) > 0
                        THEN SubSeq(existing.articles \o trend.articles, 1,
                                    Min(5, Len(existing.articles) + Len(trend.articles)))
                        ELSE existing.articles,
        !.description = IF Len(trend.description) > Len(existing.description)
                        THEN trend.description ELSE existing.description ]

\* the branch of mergeAndScore taken when grouped.has(key)
mergeInto(existing, trend) ==
    [ existing EXCEPT
        !.sources     = mergeSources(existing.sources, trend.sources),
        !.scores      = mergeScores(existing.scores, trend.scores),
        !.views       = Max(existing.views, trend.views),
        !.growth5h    = Max(existing.growth5h, trend.growth5h),
        !.growth24h   = Max(existing.growth24h, trend.growth24h),
        !.growth7d    = Max(existing.growth7d, trend.growth7d),
        !.keywords    = uniqueSeq(existing.keywords \o trend.keywords),
        !.articles    = IF Len(trend.articles) > 0
                        THEN SubSeq(existing.articles \o trend.articles, 1,
                                    Min(5, Len(existing.articles) + Len(trend.articles)))
                        ELSE existing.articles,
        !.description = IF Len(trend.description) > Len(existing.description)
                        THEN trend.description ELSE existing.description ]

\* variant: the Map is keyed by name and reporting source
groupStepBySource(grouped, trend) ==
    IF \E i \in DOMAIN grouped : /\ grouped[i].name = trend.name
                                 /\ grouped[i].sources = trend.sources
    THEN [i \in DOMAIN grouped |->
            IF grouped[i].name = trend.name /\ grouped[i].sources = trend.sources
            THEN mergeInto(grouped[i], trend)
            ELSE grouped[i]]
    ELSE Append(grouped, trend)

\* one iteration of the grouping loop; grouped is the Map in insertion order
groupStep(grouped, trend) ==
    IF \E i \in DOMAIN grouped : grouped[i].name = trend.name
    THEN [i \in DOMAIN grouped |->
            IF grouped[i].name = trend.name THEN mergeInto(grouped[i], trend)
            ELSE grouped[i]]
    ELSE Append(grouped, trend)

RECURSIVE groupAll(_, _)
groupAll(grouped, trends) ==
    IF trends = <<>> THEN grouped
    ELSE groupAll(groupStep(grouped, Head(trends)), Tail(trends))

RECURSIVE SumOver(_, _, _)
SumOver(S, f(_), acc) ==
    IF S = {} THEN acc
    ELSE LET x == CHOOSE y \in S : TRUE
         IN  SumOver(S \ {x}, f, acc + f(x))

\* variant: two sources already earn the boost of three
multiSourceBoostFromTwo(n) == IF n >= 2 THEN 130 ELSE 100

\* the multi-source boost, in hundredths
multiSourceBoost(n) == IF n >= 3 THEN 130 ELSE IF n >= 2 THEN 115 ELSE 100

\* variant: no category earns a boost
categoryBoostNone(category) ==
    CASE category = "animal"    -> 10
      [] OTHER                  -> 10

\* the category boost, in tenths
categoryBoost(category) ==
    CASE category = "animal"    -> 14
      [] category = "ai"        -> 13
      [] category = "absurdist" -> 12
      [] OTHER                  -> 10

\* variant: the boosted mean is rounded but not capped
scoreOfUnclamped(trend) ==
    LET W(s) == SOURCE_WEIGHTS(s)
        WS(s) == trend.scores[s] * SOURCE_WEIGHTS(s)
        totalWeight == SumOver(DOMAIN trend.scores, W, 0)
        weightedScore == SumOver(DOMAIN trend.scores, WS, 0)
        num == weightedScore * multiSourceBoost(Len(trend.sources))
                             * categoryBoost(trend.category)
    IN  IF totalWeight > 0 THEN RoundDiv(num, totalWeight * 1000) ELSE 0

\* the aggregate score of one grouped trend, an integer in [0,100]
scoreOf(trend) ==
    LET W(s) == SOURCE_WEIGHTS(s)
        WS(s) == trend.scores[s] * SOURCE_WEIGHTS(s)
        totalWeight == SumOver(DOMAIN trend.scores, W, 0)
        weightedScore == SumOver(DOMAIN trend.scores, WS, 0)
        num == weightedScore * multiSourceBoost(Len(trend.sources))
                             * categoryBoost(trend.category)
    IN  IF totalWeight > 0 THEN Min(100, RoundDiv(num, totalWeight * 1000)) ELSE 0

scoreTrend(trend) == [trend EXCEPT !.aggregateScore = 10 * scoreOf(trend)]

\* variant: a sort that puts a trend before the earlier trends of equal score
RECURSIVE sortByScoreUnstable(_)
sortByScoreUnstable(list) ==
    IF list = <<>> THEN <<>>
    ELSE LET init == sortByScoreUnstable(SubSeq(list, 1, Len(list) - 1))
             last == list[Len(list)]
             keep == {i \in DOMAIN init : init[i].aggregateScore > last.aggregateScore}
             k == Cardinality(keep)
         IN  SubSeq(init, 1, k) \o <<last>> \o SubSeq(init, k + 1, Len(init))

\* result.sort((a, b) => b.aggregateScore - a.aggregateScore): stable, descending
RECURSIVE sortByScore(_)
sortByScore(list) ==
    IF list = <<>> THEN <<>>
    ELSE LET init == sortByScore(SubSeq(list, 1, Len(list) - 1))
             last == list[Len(list)]
             keep == {i \in DOMAIN init : init[i].aggregateScore >= last.aggregateScore}
             k == Cardinality(keep)
         IN  SubSeq(init, 1, k) \o <<last>> \o SubSeq(init, k + 1, Len(init))

mergeAndScore(trends) ==
    LET grouped == groupAll(<<>>, trends)
    IN  sortByScore([i \in DOMAIN grouped |-> scoreTrend(grouped[i])])

(***************************************************************************)
(* Enrichment                                                              *)
(***************************************************************************)
\* checkKnowYourMeme: what the lookup returns for each way the call can end;
\* "null" stands for the JavaScript null
checkKnowYourMeme(reply) ==
    CASE reply = "neterr"     -> "null"
      [] reply = "badstatus"  -> "null"
      [] reply = "confirmed"  -> "confirmed"
      [] reply = "submission" -> "submission"
      [] OTHER                -> "null"

\* variant: every listed meme earns the boost, confirmed or not
enrichOneAnyStatus(trend, memeData) ==
    IF memeData = "null" THEN trend
    ELSE [trend EXCEPT
            !.memeStatus = memeData,
            !.aggregateScore = Min(1000, (trend.aggregateScore * 12) \div 10)]

\* the body of the loop of enrichWithKnowYourMeme for one trend
enrichOne(trend, memeData) ==
    IF memeData = "null" THEN trend
    ELSE [trend EXCEPT
            !.memeStatus = memeData,
            !.aggregateScore = IF memeData = "confirmed"
                               THEN Min(1000, (trend.aggregateScore * 12) \div 10)
                               ELSE trend.aggregateScore]

\* variant: the loop runs over the whole list
EnrichLimitWholeList(trends) == Len(trends)

\* Math.min(10, enrichedTrends.length)
EnrichLimit(trends) == Min(10, Len(trends))

(***************************************************************************)
(* Source adapters                                                         *)
(***************************************************************************)
\* an intermediate record as the adapters build it; fields an adapter does
\* not set are undefined in the code: the empty string, 0 or FALSE here,
\* which the normalizer treats alike (x || default)
Obs(hashtag, displayName, keywords, growth, rank) ==
    [ hashtag |-> hashtag, displayName |-> displayName, keywords |-> keywords,
      views |-> 0, growth5h |-> 0, growth24h |-> growth, growth7d |-> 0,
      description |-> <<"t">>, rank |-> rank,
      isHashtag |-> FALSE, isCashtag |-> FALSE,
      redditScore |-> 0, subreddits |-> 0,
      chanReplies |-> 0, chanImages |-> 0, articles |-> <<>> ]

\* what each upstream delivers when it answers with data
FeedItems(source) ==
    CASE source = "tiktok" ->
           << [Obs(<<"#","M","o","o","n","D","o","g","e">>, <<>>, <<<<"m","o","o","n","d","o","g","e">>>>, 500, 1)
                 EXCEPT !.views = 9000, !.growth5h = 125, !.growth7d = 200] >>
      [] source = "google" ->
           << [Obs(<<"#","m","o","o","n","d","o","g","e">>, <<"M","o","o","n"," ","D","o","g","e">>,
                   <<<<"m","o","o","n">>, <<"d","o","g","e">>>>, 300, 2)
                 EXCEPT !.views = 250000, !.description = <<"n","e","w","s">>,
                        !.articles = <<"a1">>] >>
      [] source = "reddit" ->
           << [Obs(<<"#","s","i","g","m","a","r","i","z","z">>, <<"S","i","g","m","a"," ","r","i","z","z","!">>,
                   <<<<"s","i","g","m","a">>, <<"r","i","z","z">>>>, 90, 1)
                 EXCEPT !.views = 99900, !.growth5h = 18, !.redditScore = 999,
                        !.subreddits = 2] >>
      [] source = "twitter" ->
           << [Obs(<<"#","b","t","c">>, <<"$","B","T","C">>, <<<<"b","t","c">>>>, 200, 1)
                 EXCEPT !.isCashtag = TRUE] >>
      [] source = "4chan" ->
           << [Obs(<<"#","b","t","c">>, <<"B","T","C">>, <<<<"b","t","c">>>>, 198, 1)
                 EXCEPT !.views = 4950, !.chanReplies = 99, !.chanImages = 12] >>

\* the ways one call of an adapter can end upstream
Upstreams == {"neterr", "badstatus", "malformed", "empty", "ok"}

Failures == {"neterr", "badstatus", "malformed"}

\* An adapter returns to its caller either a list or an exception.  The
\* whole body of every adapter is inside try { } catch { return [] }.
Returned(items) == [threw |-> FALSE, items |-> items]

Thrown == [threw |-> TRUE, items |-> <<>>]

\* the answers of the scraper-run API that mean "no last run" (404):
\* "notfound" when the POST that starts a run is accepted, "notfoundrefused"
\* when that POST fails or is refused
ColdStarts == {"notfound", "notfoundrefused"}

\* variant: the adapter posts the run and posts it again
startTikTokRunTwice(upstream) == IF upstream \in ColdStarts THEN 2 ELSE 0

\* startTikTokRun: the number of POSTs to the runs endpoint that one call of
\* the adapter makes (one, on 404 only)
startTikTokRun(upstream) == IF upstream \in ColdStarts THEN 1 ELSE 0

fetchTikTokTrends(upstream) ==
    CASE upstream = "ok"       -> Returned(FeedItems("tiktok"))
      [] upstream = "empty"    -> Returned(<<>>)
      [] upstream = "notfound" -> Returned(<<>>)
      [] OTHER                 -> Returned(<<>>)

fetchGoogleTrends(upstream) ==
    CASE upstream = "ok"    -> Returned(FeedItems("google"))
      [] upstream = "empty" -> Returned(<<>>)
      [] OTHER              -> Returned(<<>>)

fetchRedditTrends(upstream) ==
    CASE upstream = "ok"    -> Returned(FeedItems("reddit"))
      [] upstream = "empty" -> Returned(<<>>)
      [] OTHER              -> Returned(<<>>)

fetchTwitterTrends(upstream) ==
    CASE upstream = "ok"    -> Returned(FeedItems("twitter"))
      [] upstream = "empty" -> Returned(<<>>)
      [] OTHER              -> Returned(<<>>)

\* variant: the adapter without its try/catch
fetch4chanTrendsNoCatch(upstream) ==
    CASE upstream = "ok"    -> Returned(FeedItems("4chan"))
      [] upstream = "empty" -> Returned(<<>>)
      [] OTHER              -> Thrown

fetch4chanTrends(upstream) ==
    CASE upstream = "ok"    -> Returned(FeedItems("4chan"))
      [] upstream = "empty" -> Returned(<<>>)
      [] OTHER              -> Returned(<<>>)

Adapter(source, upstream) ==
    CASE source = "tiktok"  -> fetchTikTokTrends(upstream)
      [] source = "google"  -> fetchGoogleTrends(upstream)
      [] source = "reddit"  -> fetchRedditTrends(upstream)
      [] source = "twitter" -> fetchTwitterTrends(upstream)
      [] source = "4chan"   -> fetch4chanTrends(upstream)

(***************************************************************************)
(* The GET /trends handler: state                                          *)
(***************************************************************************)
\* number of requests the worker handles at the same time
NumReq == 2

\* env.CACHE_DURATION (max-age of the stored response), in clock ticks
CACHE_DURATION == 2

Requests == 1..NumReq

VARIABLES
    cache,       \* caches.default under the key meme-trends-v4
    req,         \* one invocation of fetch(request, env, ctx) per slot
    scraperRun,  \* whether the scraper-run API has a last run ("absent", "present")
    mIn,         \* mergeAndScore on its own: the argument trends
    mPos,        \* number of trends the grouping loop has consumed
    mGrouped,    \* the Map grouped, in insertion order
    mOut,        \* the returned list
    mPc,         \* "idle", "grouping", "done"
    sIn,         \* the scoring path on its own: one topic as its sources report it
    sOut,        \* the trends after the stage sPc names
    sPc          \* "idle", "raw", "normalized", "merged", "enriched"

gateway == <<cache, req, scraperRun>>

merger == <<mIn, mPos, mGrouped, mOut, mPc>>

scorer == <<sIn, sOut, sPc>>

vars == <<cache, req, scraperRun, mIn, mPos, mGrouped, mOut, mPc, sIn, sOut, sPc>>

\* count -1: the body has no count and no sources field
NoCounts == [s \in SourceSet |-> 0]

NoPayload == [success |-> FALSE, error |-> "", trends |-> <<>>, count |-> -1,
              sources |-> NoCounts]

NoEntry == [present |-> FALSE, age |-> 0, payload |-> NoPayload]

\* variant: the lookup ignores max-age
CacheLiveNoExpiry == cache.present

\* cache.match returns an entry only while its max-age has not elapsed
CacheLive == cache.present /\ cache.age < CACHE_DURATION

NoResponse == [status |-> 0, xcache |-> "none", body |-> NoPayload]

Unsettled == [state |-> "pending", failed |-> FALSE, items |-> <<>>]

IdleReq ==
    [ pc        |-> "idle",
      skipCache |-> FALSE,
      cached    |-> NoPayload,                       \* cachedResponse
      results   |-> [s \in SourceSet |-> Unsettled], \* the five adapter promises
      trends    |-> <<>>,                            \* aggregatedTrends / enrichedTrends
      i         |-> 0,                               \* loop index of the enrichment
      response  |-> NoResponse,
      put       |-> "none",                          \* cache.put: none, pending, stored, failed
      kept      |-> FALSE,                           \* the put was handed to ctx.waitUntil
      reads     |-> 0,                               \* cache.match calls made
      fanouts   |-> 0,                               \* adapter fan-outs started
      raised    |-> "none",                          \* what the catch block caught
      posts     |-> 0,                               \* scraper runs this invocation asked for
      afterMiss |-> FALSE ]                          \* history, while the lookup is pending

\* variant: the catch block of the first worker (lines 110-120), which
\* answered an error with built-in trends
errorResponseWithFallback ==
    [ status |-> 500, xcache |-> "none",
      body |-> [success |-> FALSE, error |-> "message",
                trends |-> <<normalizeTrend(FeedItems("tiktok")[1], "tiktok")>>,
                count |-> -1, sources |-> NoCounts] ]

\* the response of the catch block (lines 371-381)
errorResponse ==
    [ status |-> 500, xcache |-> "none",
      body |-> [success |-> FALSE, error |-> "message", trends |-> <<>>,
                count |-> -1, sources |-> NoCounts] ]

\* variant: a run that found nothing is reported as unsuccessful
responseDataEmptyFails(trends, results) ==
    [ success |-> Len(trends) > 0, error |-> "", trends |-> trends, count |-> Len(trends),
      sources |-> [s \in SourceSet |-> Len(results[s].items)] ]

\* responseData (lines 337-349); the timestamp is left out
responseData(trends, results) ==
    [ success |-> TRUE, error |-> "", trends |-> trends, count |-> Len(trends),
      sources |-> [s \in SourceSet |-> Len(results[s].items)] ]

\* [...normalizedTiktok, ...normalizedGoogle, ...normalizedReddit,
\*  ...normalizedTwitter, ...normalizedChan]
RECURSIVE normalizedInOrder(_, _)
normalizedInOrder(results, k) ==
    IF k > Len(Sources) THEN <<>>
    ELSE normalizeAll(results[Sources[k]].items, Sources[k])
         \o normalizedInOrder(results, k + 1)

\* variant: a short list is topped up with a built-in trend, as
\* getFallbackTrends did in the first worker (lines 71-80)
pipelineWithFallback(results) ==
    LET trends == mergeAndScore(normalizedInOrder(results, 1))
    IN  IF Len(trends) < 1
        THEN << [normalizeTrend(FeedItems("tiktok")[1], "tiktok")
                   EXCEPT !.sources = <<"fallback">>] >>
        ELSE trends

\* lines 324-331
pipeline(results) == mergeAndScore(normalizedInOrder(results, 1))

\* variant: the catch block also stores its response under the cache key
CaughtCachesError(r, what) ==
    [req[r] EXCEPT !.pc = "done", !.response = errorResponse, !.raised = what,
                   !.put = "pending", !.kept = TRUE]

\* the catch block of the handler (lines 371-381)
Caught(r, what) ==
    [req[r] EXCEPT !.pc = "done", !.response = errorResponse, !.raised = what]

\* line 312-321: the five adapters are called, the handler awaits Promise.all
FanOut(r, skip) ==
    [req[r] EXCEPT !.pc = "fetching", !.skipCache = skip,
                   !.fanouts = @ + 1]

(***************************************************************************)
(* The GET /trends handler: steps                                          *)
(***************************************************************************)
\* history: the response of a successful miss run is out and the cache.put
\* of that run has not settled yet (no time has passed since that response)
MissJustAnswered ==
    \E q \in Requests :
        /\ req[q].pc = "done"
        /\ req[q].response.status = 200
        /\ req[q].response.xcache = "MISS"
        /\ req[q].put = "pending"

\* variant: the handler reads the cache whatever the nocache parameter says
ArriveAlwaysReads(r, skip) ==
    /\ req[r].pc = "idle"
    /\ req' = [req EXCEPT ![r] =
                 [req[r] EXCEPT !.pc = "matching", !.skipCache = skip,
                                !.reads = @ + 1,
                                !.afterMiss = MissJustAnswered]]
    /\ UNCHANGED <<cache, scraperRun, merger, scorer>>

\* a request arrives; the handler runs to its first await
Arrive(r, skip) ==
    /\ req[r].pc = "idle"
    /\ req' = [req EXCEPT ![r] =
                 IF skip THEN FanOut(r, skip)
                 ELSE [req[r] EXCEPT !.pc = "matching", !.skipCache = skip,
                                     !.reads = @ + 1,
                                     !.afterMiss = MissJustAnswered]]
    /\ UNCHANGED <<cache, scraperRun, merger, scorer>>

\* await cache.match(cacheKey) settles
CacheMatch(r, ok) ==
    /\ req[r].pc = "matching"
    /\ req' = [req EXCEPT ![r] =
                 [(IF ~ok THEN Caught(r, "cache")
                   ELSE IF CacheLive
                        THEN [req[r] EXCEPT !.pc = "decoding", !.cached = cache.payload]
                        ELSE FanOut(r, FALSE))
                  EXCEPT !.afterMiss = FALSE]]
    /\ UNCHANGED <<cache, scraperRun, merger, scorer>>

\* variant: a hit puts the entry back under the key, renewing its max-age
CacheDecodeRenews(r, ok) ==
    /\ req[r].pc = "decoding"
    /\ req' = [req EXCEPT ![r] =
                 IF ~ok THEN Caught(r, "cache")
                 ELSE [req[r] EXCEPT !.pc = "done",
                                     !.response = [status |-> 200, xcache |-> "HIT",
                                                   body |-> req[r].cached],
                                     !.put = "pending",
                                     !.kept = TRUE]]
    /\ UNCHANGED <<cache, scraperRun, merger, scorer>>

\* await cachedResponse.json() settles; the hit is answered
CacheDecode(r, ok) ==
    /\ req[r].pc = "decoding"
    /\ req' = [req EXCEPT ![r] =
                 IF ~ok THEN Caught(r, "cache")
                 ELSE [req[r] EXCEPT !.pc = "done",
                                     !.response = [status |-> 200, xcache |-> "HIT",
                                                   body |-> req[r].cached]]]
    /\ UNCHANGED <<cache, scraperRun, merger, scorer>>

\* one adapter promise settles.  The short-video adapter sees 404 exactly
\* when the scraper has no last run, and then posts a new run.
SettleAdapter(r, source, upstream) ==
    /\ req[r].pc = "fetching"
    /\ req[r].results[source].state = "pending"
    /\ (upstream \in ColdStarts) => (source = "tiktok" /\ scraperRun = "absent")
    /\ (source = "tiktok" /\ scraperRun = "absent") => upstream \in ColdStarts \cup {"neterr"}
    /\ LET out == Adapter(source, upstream)
           posted == IF source = "tiktok" THEN startTikTokRun(upstream) ELSE 0
       IN  req' = [req EXCEPT ![r] =
                     IF out.threw THEN Caught(r, "adapter")
                     ELSE [req[r] EXCEPT !.results[source] =
                             [state |-> "settled",
                              failed |-> upstream \in Failures,
                              items |-> out.items],
                           !.posts = @ + posted]]
    /\ scraperRun' = IF upstream = "notfound" THEN "present" ELSE scraperRun
    /\ UNCHANGED <<cache, merger, scorer>>

\* the five adapter promises of one run settle, taken as one step
SettleAll(r, feed) ==
    /\ req[r].pc = "fetching"
    /\ \A s \in SourceSet : req[r].results[s].state = "pending"
    /\ (feed["tiktok"] \in ColdStarts) => (scraperRun = "absent")
    /\ (scraperRun = "absent") => feed["tiktok"] \in ColdStarts \cup {"neterr"}
    /\ LET out == [s \in SourceSet |-> Adapter(s, feed[s])]
       IN  req' = [req EXCEPT ![r] =
                     IF \E s \in SourceSet : out[s].threw THEN Caught(r, "adapter")
                     ELSE [req[r] EXCEPT !.results =
                             [s \in SourceSet |->
                                [state |-> "settled",
                                 failed |-> feed[s] \in Failures,
                                 items |-> out[s].items]],
                           !.posts = @ + startTikTokRun(feed["tiktok"])]]
    /\ scraperRun' = IF feed["tiktok"] = "notfound" THEN "present" ELSE scraperRun
    /\ UNCHANGED <<cache, merger, scorer>>

\* variant: the handler goes on as soon as one adapter has settled
\* (Promise.race), taking what has arrived
MergeStepOnFirst(r, raise) ==
    /\ req[r].pc = "fetching"
    /\ \E s \in SourceSet : req[r].results[s].state = "settled"
    /\ req' = [req EXCEPT ![r] =
                 IF raise THEN Caught(r, "pipeline")
                 ELSE [req[r] EXCEPT !.pc = "enriching",
                                     !.trends = pipeline(req[r].results),
                                     !.i = 0]]
    /\ UNCHANGED <<cache, scraperRun, merger, scorer>>

\* Promise.all has resolved: normalize, merge and score (lines 323-331),
\* then enter enrichWithKnowYourMeme.  raise: shared logic throws.
MergeStep(r, raise) ==
    /\ req[r].pc = "fetching"
    /\ \A s \in SourceSet : req[r].results[s].state = "settled"
    /\ req' = [req EXCEPT ![r] =
                 IF raise THEN Caught(r, "pipeline")
                 ELSE [req[r] EXCEPT !.pc = "enriching",
                                     !.trends = pipeline(req[r].results),
                                     !.i = 0]]
    /\ UNCHANGED <<cache, scraperRun, merger, scorer>>

\* variant: checkKnowYourMeme without its try/catch; a failed lookup
\* reaches the catch block of the handler
LookupRethrows(r, reply) ==
    /\ req[r].pc = "enriching"
    /\ req[r].i < EnrichLimit(req[r].trends)
    /\ req' = [req EXCEPT ![r] =
                 IF reply \in {"neterr", "badstatus", "malformed"}
                 THEN Caught(r, "pipeline")
                 ELSE [req[r] EXCEPT
                         !.trends[req[r].i + 1] = enrichOne(@, checkKnowYourMeme(reply)),
                         !.i = @ + 1]]
    /\ UNCHANGED <<cache, scraperRun, merger, scorer>>

\* await checkKnowYourMeme(...) settles for enrichedTrends[i]
Lookup(r, reply) ==
    /\ req[r].pc = "enriching"
    /\ req[r].i < EnrichLimit(req[r].trends)
    /\ req' = [req EXCEPT ![r] =
                 [req[r] EXCEPT
                    !.trends[req[r].i + 1] = enrichOne(@, checkKnowYourMeme(reply)),
                    !.i = @ + 1]]
    /\ UNCHANGED <<cache, scraperRun, merger, scorer>>

\* variant: cache.put is started but not handed to ctx.waitUntil
RespondDetached(r) ==
    /\ req[r].pc = "enriching"
    /\ req[r].i >= EnrichLimit(req[r].trends)
    /\ req' = [req EXCEPT ![r] =
                 [req[r] EXCEPT
                    !.pc = "done",
                    !.response = [status |-> 200, xcache |-> "MISS",
                                  body |-> responseData(req[r].trends, req[r].results)],
                    !.put = "pending",
                    !.kept = FALSE]]
    /\ UNCHANGED <<cache, scraperRun, merger, scorer>>

\* lines 336-369: build the response, hand cache.put to ctx.waitUntil, return
Respond(r) ==
    /\ req[r].pc = "enriching"
    /\ req[r].i >= EnrichLimit(req[r].trends)
    /\ req' = [req EXCEPT ![r] =
                 [req[r] EXCEPT
                    !.pc = "done",
                    !.response = [status |-> 200, xcache |-> "MISS",
                                  body |-> responseData(req[r].trends, req[r].results)],
                    !.put = "pending",
                    !.kept = TRUE]]
    /\ UNCHANGED <<cache, scraperRun, merger, scorer>>

\* variant: the result of a nocache run is not stored
PutSettleSkipsBypass(r, ok) ==
    /\ req[r].put = "pending"
    /\ req' = [req EXCEPT ![r].put = IF ok THEN "stored" ELSE "failed"]
    /\ cache' = IF ok /\ ~req[r].skipCache
                THEN [present |-> TRUE, age |-> 0, payload |-> req[r].response.body]
                ELSE cache
    /\ UNCHANGED <<scraperRun, merger, scorer>>

\* the cache.put promise settles
PutSettle(r, ok) ==
    /\ req[r].put = "pending"
    /\ req' = [req EXCEPT ![r].put = IF ok THEN "stored" ELSE "failed"]
    /\ cache' = IF ok THEN [present |-> TRUE, age |-> 0, payload |-> req[r].response.body]
                ELSE cache
    /\ UNCHANGED <<scraperRun, merger, scorer>>

\* the runtime ends the invocation once the response is out and every
\* promise given to ctx.waitUntil has settled; other work is dropped
Finalize(r) ==
    /\ req[r].pc = "done"
    /\ ~(req[r].put = "pending" /\ req[r].kept)
    /\ req' = [req EXCEPT ![r] = IdleReq]
    /\ UNCHANGED <<cache, scraperRun, merger, scorer>>

\* time passes: the stored entry ages until its max-age has elapsed
Tick ==
    /\ cache.present
    /\ cache.age < CACHE_DURATION
    /\ cache' = [cache EXCEPT !.age = @ + 1]
    /\ UNCHANGED <<req, scraperRun, merger, scorer>>

(***************************************************************************)
(* Specifications                                                          *)
(***************************************************************************)
MergerIdle ==
    /\ mIn = <<>>
    /\ mPos = 0
    /\ mGrouped = <<>>
    /\ mOut = <<>>
    /\ mPc = "idle"

ScorerIdle ==
    /\ sIn = <<>>
    /\ sOut = <<>>
    /\ sPc = "idle"

Init ==
    /\ cache = NoEntry
    /\ req = [r \in Requests |-> IdleReq]
    /\ scraperRun = "present"
    /\ MergerIdle
    /\ ScorerIdle

\* The gateway under concurrent requests.  The adapters of one run write
\* disjoint result slots that the handler reads only after all five have
\* settled, so the gateway cannot observe their settling one by one: Next
\* settles the five promises of a run in one step (SettleAll) and draws the
\* upstream outcomes from GatewayFeeds.  RunNext lifts both limits.
GatewayFeeds ==
    { [s \in SourceSet |-> CASE s = "tiktok"  -> "neterr"
                             [] s = "google"  -> "badstatus"
                             [] s = "twitter" -> "malformed"
                             [] OTHER         -> "empty"],
      [s \in SourceSet |-> IF s \in {"tiktok", "google"} THEN "ok" ELSE "empty"] }

GatewayReplies == {"none"}

Next ==
    \/ \E r \in Requests, skip \in BOOLEAN : Arrive(r, skip)
    \/ \E r \in Requests, ok \in BOOLEAN : CacheMatch(r, ok)
    \/ \E r \in Requests, ok \in BOOLEAN : CacheDecode(r, ok)
    \/ \E r \in Requests, feed \in GatewayFeeds : SettleAll(r, feed)
    \/ \E r \in Requests, raise \in BOOLEAN : MergeStep(r, raise)
    \/ \E r \in Requests, reply \in GatewayReplies : Lookup(r, reply)
    \/ \E r \in Requests : Respond(r)
    \/ \E r \in Requests, ok \in BOOLEAN : PutSettle(r, ok)
    \/ \E r \in Requests : Finalize(r)
    \/ Tick

Spec == Init /\ [][Next]_vars

\* One run in full detail: a single invocation, every settling order of
\* the adapters, every upstream outcome and every lookup reply.
AllOk == [s \in SourceSet |-> [state |-> "settled", failed |-> FALSE,
                                items |-> FeedItems(s)]]

RunInit ==
    /\ cache \in {NoEntry} \cup
                 {[present |-> TRUE, age |-> a,
                   payload |-> responseData(pipeline(AllOk), AllOk)] :
                      a \in 0..CACHE_DURATION}
    /\ req = [r \in Requests |-> IdleReq]
    /\ scraperRun \in {"absent", "present"}
    /\ MergerIdle
    /\ ScorerIdle

Replies == {"neterr", "badstatus", "none", "submission", "confirmed"}

RunNext ==
    \/ \E skip \in BOOLEAN : Arrive(1, skip)
    \/ \E ok \in BOOLEAN : CacheMatch(1, ok)
    \/ \E ok \in BOOLEAN : CacheDecode(1, ok)
    \/ \E s \in SourceSet, u \in Upstreams \cup ColdStarts : SettleAdapter(1, s, u)
    \/ \E raise \in BOOLEAN : MergeStep(1, raise)
    \/ \E reply \in Replies : Lookup(1, reply)
    \/ Respond(1)
    \/ \E ok \in BOOLEAN : PutSettle(1, ok)

RunSpec == RunInit /\ [][RunNext]_vars


\* One invocation after another under the scheduling the runtime guarantees.
\* The handler's own continuations, the Cache API and every promise given
\* to ctx.waitUntil make progress; the arrival of requests and the answers
\* of the external servers (adapters, lookups) carry no such guarantee.
FairInit ==
    /\ cache = NoEntry
    /\ req = [r \in Requests |-> IdleReq]
    /\ scraperRun \in {"absent", "present"}
    /\ MergerIdle
    /\ ScorerIdle

SoloUpstreams(source) ==
    IF source = "tiktok" THEN {"ok", "neterr", "notfound"} ELSE {"empty"}

FairNext ==
    \/ \E skip \in BOOLEAN : Arrive(1, skip)
    \/ \E ok \in BOOLEAN : CacheMatch(1, ok)
    \/ \E ok \in BOOLEAN : CacheDecode(1, ok)
    \/ \E s \in SourceSet : \E u \in SoloUpstreams(s) : SettleAdapter(1, s, u)
    \/ \E raise \in BOOLEAN : MergeStep(1, raise)
    \/ \E reply \in Replies : Lookup(1, reply)
    \/ Respond(1)
    \/ \E ok \in BOOLEAN : PutSettle(1, ok)
    \/ Finalize(1)
    \/ Tick

Fairness ==
    /\ WF_vars(\E ok \in BOOLEAN : CacheMatch(1, ok))
    /\ WF_vars(\E ok \in BOOLEAN : CacheDecode(1, ok))
    /\ WF_vars(MergeStep(1, TRUE) \/ MergeStep(1, FALSE))
    /\ WF_vars(Respond(1))
    /\ WF_vars(\E ok \in BOOLEAN : PutSettle(1, ok))
    /\ WF_vars(Finalize(1))

FairSpec == FairInit /\ [][FairNext]_vars /\ Fairness

(***************************************************************************)
(* mergeAndScore on its own                                                *)
(***************************************************************************)
\* longest argument list of mergeAndScore
MaxObs == 2

MergeSamples ==
    { [Obs(<<"#","z","e","d">>, <<>>, <<<<"z","e","d">>>>, 40, 1)
         EXCEPT !.views = 10, !.redditScore = 99, !.subreddits = 1, !.chanReplies = 9],
      [Obs(<<"#","Z","e","d","!">>, <<"Z","e","d">>, <<<<"d","o","g">>>>, 90, 10)
         EXCEPT !.views = 70, !.growth7d = 300, !.redditScore = 999, !.subreddits = 3,
                !.chanReplies = 999, !.chanImages = 12, !.isCashtag = TRUE,
                !.description = <<"l","o","n","g">>],
      [Obs(<<"#","M","o","o","n","D","o","g","e">>, <<>>, <<<<"m","o","o","n","d","o","g","e">>>>, 500, 2)
         EXCEPT !.growth5h = 125, !.growth7d = 2075, !.redditScore = 9999,
                !.chanReplies = 999, !.isHashtag = TRUE],
      [Obs(<<"#","m","o","o","n","d","o","g","e">>, <<"M","o","o","n"," ","D","o","g","e">>,
           <<<<"m","o","o","n">>, <<"d","o","g","e">>>>, 300, 30)
         EXCEPT !.views = 5000, !.growth5h = 75, !.growth7d = 1725,
                !.redditScore = 9, !.articles = <<"a1">>],
      [Obs(<<"#","g","m">>, <<"G","M">>, <<>>, 0, 40)
         EXCEPT !.growth5h = 2400, !.growth7d = 900, !.redditScore = 99999,
                !.subreddits = 4, !.chanReplies = 9999] }

MergeInputs == {normalizeTrend(o, s) : o \in MergeSamples, s \in SourceSet}

MergeInit ==
    /\ cache = NoEntry
    /\ req = [r \in Requests |-> IdleReq]
    /\ scraperRun = "present"
    /\ mIn \in UNION {[1..n -> MergeInputs] : n \in 0..MaxObs}
    /\ mPos = 0
    /\ mGrouped = <<>>
    /\ mOut = <<>>
    /\ mPc = "grouping"
    /\ ScorerIdle

\* one iteration of for (const trend of trends)
GroupNext ==
    /\ mPc = "grouping"
    /\ mPos < Len(mIn)
    /\ mGrouped' = groupStep(mGrouped, mIn[mPos + 1])
    /\ mPos' = mPos + 1
    /\ UNCHANGED <<mIn, mOut, mPc, gateway, scorer>>

\* the scoring map, the sort and the return
ScoreAndSort ==
    /\ mPc = "grouping"
    /\ mPos = Len(mIn)
    /\ mOut' = sortByScore([i \in DOMAIN mGrouped |-> scoreTrend(mGrouped[i])])
    /\ mPc' = "done"
    /\ UNCHANGED <<mIn, mPos, mGrouped, gateway, scorer>>

MergeNext == GroupNext \/ ScoreAndSort

MergeSpec == MergeInit /\ [][MergeNext]_vars

(***************************************************************************)
(* The scoring path on its own: normalizeTrend, mergeAndScore and the      *)
(* enrichment of the first entry, for one topic reported by some sources   *)
(***************************************************************************)
\* raw observations as the adapters build them: ranks are positions
\* (index + 1), the short-video growth figures can be negative (rankDiff)
ScoreSamples ==
    MergeSamples \cup
    { [Obs(<<"#","S","l","o","w">>, <<"s","l","o","w">>, <<<<"s","l","o","w">>>>, -50, 30)
         EXCEPT !.growth5h = -13, !.growth7d = -20, !.redditScore = 999,
                !.subreddits = 1],
      [Obs(<<"#","e","d","g","e">>, <<"E","d","g","e">>, <<<<"e","d","g","e">>>>, 1500, 25)
         EXCEPT !.growth5h = 375, !.growth7d = 1110, !.isHashtag = TRUE,
                !.redditScore = 99999, !.subreddits = 2, !.chanReplies = 999,
                !.chanImages = 11],
      [Obs(<<"#","A","i","C","o","i","n">>, <<>>, <<>>, 60, 5)
         EXCEPT !.redditScore = 9, !.subreddits = 1],
      [Obs(<<"#","N","p","c">>, <<"N","p","c">>,
           <<<<"n","p","c">>, <<"T","o","k","e","n">>>>, 120, 7)
         EXCEPT !.chanReplies = 99, !.isCashtag = TRUE] }

\* the sources that report the topic, in the order the handler concatenates
ScoreSourceLists ==
    { <<Sources[k]>> : k \in DOMAIN Sources } \cup
    { <<"tiktok", "google">>, <<"reddit", "twitter">>, <<"google", "4chan">>,
      <<"tiktok", "reddit", "4chan">>, <<"reddit", "twitter", "4chan">>,
      Sources }

ScoreInit ==
    /\ cache = NoEntry
    /\ req = [r \in Requests |-> IdleReq]
    /\ scraperRun = "present"
    /\ MergerIdle
    /\ sIn \in [obs : ScoreSamples, sources : ScoreSourceLists]
    /\ sOut = <<>>
    /\ sPc = "raw"

\* lines 324-328: items.map(t => normalizeTrend(t, source)), per source
NormalizeNext ==
    /\ sPc = "raw"
    /\ sOut' = [k \in DOMAIN sIn.sources |-> normalizeTrend(sIn.obs, sIn.sources[k])]
    /\ sPc' = "normalized"
    /\ UNCHANGED <<sIn, gateway, merger>>

\* line 331: mergeAndScore(allTrends)
AggregateNext ==
    /\ sPc = "normalized"
    /\ sOut' = mergeAndScore(sOut)
    /\ sPc' = "merged"
    /\ UNCHANGED <<sIn, gateway, merger>>

\* lines 922-934: the lookup of the first entry has returned
EnrichNext(reply) ==
    /\ sPc = "merged"
    /\ Len(sOut) > 0
    /\ sOut' = [sOut EXCEPT ![1] = enrichOne(@, checkKnowYourMeme(reply))]
    /\ sPc' = "enriched"
    /\ UNCHANGED <<sIn, gateway, merger>>

ScoreNext ==
    \/ NormalizeNext
    \/ AggregateNext
    \/ \E reply \in Replies : EnrichNext(reply)

ScoreSpec == ScoreInit /\ [][ScoreNext]_vars

(***************************************************************************)
(* enrichWithKnowYourMeme on a long list: a run whose search-trends feed   *)
(* delivered up to MaxTrends items, taken from the point where the merged  *)
(* list is handed to the enrichment                                        *)
(***************************************************************************)
\* longest list handed to the enrichment
MaxTrends == 11

\* item k of the search-trends feed: title Tk, rank k (items.length + 1)
RankedItem(k) ==
    LET digits == IF k < 10 THEN <<DigitChars[k + 1]>>
                  ELSE <<DigitChars[(k \div 10) + 1], DigitChars[(k % 10) + 1]>>
    IN  [Obs(<<"#","t">> \o digits, <<"T">> \o digits, <<>>, 50, k)
           EXCEPT !.views = 1000]

\* the five settled promises of a run in which only the search-trends feed
\* delivered, n items
RankedResults(n) ==
    [s \in SourceSet |->
        [state |-> "settled", failed |-> FALSE,
         items |-> IF s = "google" THEN [k \in 1..n |-> RankedItem(k)] ELSE <<>>]]

EnrichInit ==
    /\ cache = NoEntry
    /\ \E n \in 0..MaxTrends :
          req = [r \in Requests |->
                   IF r = 1
                   THEN [IdleReq EXCEPT !.pc = "enriching", !.fanouts = 1, !.reads = 1,
                                        !.results = RankedResults(n),
                                        !.trends = pipeline(RankedResults(n))]
                   ELSE IdleReq]
    /\ scraperRun = "present"
    /\ MergerIdle
    /\ ScorerIdle

\* every answer but "submission" and "confirmed" is a failed lookup
EnrichReplies == {"neterr", "badstatus", "malformed", "submission", "confirmed"}

EnrichSpecNext ==
    \/ \E reply \in EnrichReplies : Lookup(1, reply)
    \/ Respond(1)

EnrichSpec == EnrichInit /\ [][EnrichSpecNext]_vars

C2_SingleFlight ==
    Cardinality({r \in Requests : /\ req[r].pc \in {"fetching", "enriching"}
                                  /\ ~req[r].skipCache}) <= 1

\* C3: no response is the error response because the cache read failed, and
\* a request whose cache write failed keeps its successful response
C3_CacheErrorNeverFailsResponse ==
    \A r \in Requests :
        /\ (req[r].pc = "done" /\ req[r].raised = "cache")
           => req[r].response.status = 200
        /\ (req[r].put = "failed")
           => (req[r].response.status = 200 /\ req[r].response.body.success)

\* C4: every trend of a miss response was delivered by the adapters of that
\* run under each source it names; when all five lists are empty the
\* response has trends [] and count 0
C4_NoFabricatedTrends ==
    \A r \in Requests :
        (req[r].pc = "done" /\ req[r].response.xcache = "MISS")
        => LET body == req[r].response.body
           IN  /\ \A k \in DOMAIN body.trends :
                    \A s \in Range(body.trends[k].sources) :
                       /\ s \in SourceSet
                       /\ \E j \in DOMAIN req[r].results[s].items :
                             identityKey(req[r].results[s].items[j]) = body.trends[k].name
               /\ body.count = Len(body.trends)
               /\ (\A s \in SourceSet : req[r].results[s].items = <<>>)
                  => (body.success /\ body.trends = <<>> /\ body.count = 0)

\* a run whose five adapters all delivered nothing has been answered
C4_Witness ==
    \E r \in Requests :
        /\ req[r].pc = "done"
        /\ req[r].response.xcache = "MISS"
        /\ \A s \in SourceSet : req[r].results[s].items = <<>>
        /\ req[r].response.body.trends = <<>>

\* C5: no handler catches an exception of an adapter; an adapter whose
\* upstream failed has settled with the empty list; and once the run has
\* merged, every item of every adapter is in the trends under its source
C5_AdaptersNeverThrow ==
    \A r \in Requests :
        /\ req[r].raised # "adapter"
        /\ \A s \in SourceSet :
              req[r].results[s].failed => req[r].results[s].items = <<>>
        /\ (req[r].pc = "enriching" \/ req[r].response.xcache = "MISS")
           => \A s \in SourceSet :
                 \A j \in DOMAIN req[r].results[s].items :
                    \E k \in DOMAIN req[r].trends :
                       /\ req[r].trends[k].name = identityKey(req[r].results[s].items[j])
                       /\ s \in Range(req[r].trends[k].sources)

\* a run with a failed adapter is answered with the trends of another one
C5_Witness ==
    \E r \in Requests :
        /\ req[r].pc = "done"
        /\ req[r].response.status = 200
        /\ req[r].response.xcache = "MISS"
        /\ \E s \in SourceSet : req[r].results[s].failed
        /\ req[r].response.body.trends # <<>>

\* C6: a request whose shared pipeline logic raised is answered with status
\* 500, success false, an error message and an empty trends list
C6_PipelineErrorShape ==
    \A r \in Requests :
        (req[r].raised = "pipeline")
        => /\ req[r].pc = "done"
           /\ req[r].response.status = 500
           /\ req[r].response.body.success = FALSE
           /\ req[r].response.body.error # ""
           /\ req[r].response.body.trends = <<>>

\* the merge of a run whose adapters delivered trends has raised
C6_Witness ==
    \E r \in Requests :
        /\ req[r].raised = "pipeline"
        /\ req[r].response.status = 500
        /\ \E s \in SourceSet : req[r].results[s].items # <<>>

\* C7: a request with nocache=1 makes no cache read, starts the fan-out at
\* once, is never answered as a hit, and its completed run is marked MISS
C7_BypassSkipsCacheRead ==
    \A r \in Requests :
        (req[r].pc # "idle" /\ req[r].skipCache)
        => /\ req[r].reads = 0
           /\ req[r].pc \notin {"matching", "decoding"}
           /\ req[r].fanouts = 1
           /\ req[r].response.xcache # "HIT"
           /\ (req[r].response.status = 200) => (req[r].response.xcache = "MISS")

\* a bypass request has run the pipeline although a fresh entry was stored
C7_Witness ==
    \E r \in Requests :
        /\ req[r].skipCache
        /\ req[r].pc = "done"
        /\ req[r].response.xcache = "MISS"
        /\ req[r].put = "pending"
        /\ cache.present
        /\ cache.age < CACHE_DURATION

\* C8: whenever the miss response is out its cache.put has been started and
\* handed to ctx.waitUntil, and a pending cache.put eventually settles
C8_PutRunsToCompletion ==
    /\ [](\A r \in Requests :
            (req[r].response.xcache = "MISS") => (req[r].put # "none" /\ req[r].kept))
    /\ \A r \in Requests :
          (req[r].put = "pending") ~> (req[r].put \in {"stored", "failed"})

\* the response is out while the cache.put is still pending
C8_Witness ==
    \E r \in Requests :
        /\ req[r].pc = "done"
        /\ req[r].response.status = 200
        /\ req[r].response.xcache = "MISS"
        /\ req[r].put = "pending"

\* C9: every request that has arrived is eventually answered
C9_EveryRequestAnswered ==
    \A r \in Requests : (req[r].pc # "idle") ~> (req[r].pc = "done")

\* C10: two observations of one identityKey from two different sources give
\* the same final Trend (scores, set of sources, metrics, aggregateScore)
\* in either order
SameFinalTrend(a, b) ==
    /\ a.scores = b.scores
    /\ Range(a.sources) = Range(b.sources)
    /\ a.views = b.views
    /\ a.growth5h = b.growth5h
    /\ a.growth24h = b.growth24h
    /\ a.growth7d = b.growth7d
    /\ a.aggregateScore = b.aggregateScore

C10_MergeCommutes ==
    (/\ mPc = "done"
     /\ Len(mIn) = 2
     /\ mIn[1].name = mIn[2].name
     /\ mIn[1].sources # mIn[2].sources)
    => /\ Len(mOut) = 1
       /\ SameFinalTrend(mOut[1], mergeAndScore(<<mIn[2], mIn[1]>>)[1])

\* C11: every per-source score that normalizeTrend produces lies in
\* [0,100], and so does the aggregateScore of every trend after the merge,
\* the boosts and the enrichment boost (aggregateScore is kept in tenths)
C11_ScoresClamped ==
    (sPc \in {"normalized", "merged", "enriched"})
    => \A k \in DOMAIN sOut :
          /\ \A s \in DOMAIN sOut[k].scores :
                sOut[k].scores[s] >= 0 /\ sOut[k].scores[s] <= 100
          /\ sOut[k].aggregateScore >= 0
          /\ sOut[k].aggregateScore <= 1000

\* a trend of three sources whose boosted score passed 100 is confirmed and
\* stays at 100
C11_Witness ==
    /\ sPc = "enriched"
    /\ sOut[1].memeStatus = "confirmed"
    /\ Len(sOut[1].sources) >= 3
    /\ sOut[1].category = "animal"
    /\ \E s \in DOMAIN sOut[1].scores : sOut[1].scores[s] = 100
    /\ sOut[1].aggregateScore = 1000

\* the same label written in capitals
UpperChar(c) ==
    IF c \in Range(LowerChars)
    THEN UpperChars[CHOOSE i \in DOMAIN LowerChars : LowerChars[i] = c]
    ELSE c

\* the ways of writing a label that differ from it only by letter case, by
\* punctuation or by a leading topic marker
LabelVariants(label) ==
    {label, [i \in DOMAIN label |-> UpperChar(label[i])],
     [i \in DOMAIN label |-> LowerChar(label[i])], <<"#">> \o label}
    \cup { SubSeq(label, 1, i) \o <<c>> \o SubSeq(label, i + 1, Len(label)) :
             i \in 0..Len(label), c \in {" ", "!", "-", "_", "'"} }
    \cup (IF Len(label) > 0 /\ label[1] = "#" THEN {Tail(label)} ELSE {})

\* C12: the key that normalizeTrend gives a label consists of lowercase
\* letters and digits only, is the same under every source tag, and is the
\* key of every other way of writing the label (letter case, punctuation,
\* leading marker), whether the label arrives as hashtag or as displayName
C12_KeyIgnoresCasePunctuationMarker ==
    (sPc = "normalized")
    => LET label == IF sIn.obs.hashtag # <<>> THEN sIn.obs.hashtag
                    ELSE sIn.obs.displayName
       IN  /\ \A k \in DOMAIN sOut :
                /\ sOut[k].name = sOut[1].name
                /\ \A i \in DOMAIN sOut[k].name : IsLowerAlnum(sOut[k].name[i])
           /\ \A v \in LabelVariants(label) :
                /\ normalizeTrend([sIn.obs EXCEPT !.hashtag = v], sIn.sources[1]).name
                     = sOut[1].name
                /\ normalizeTrend([sIn.obs EXCEPT !.hashtag = <<>>, !.displayName = v],
                                  sIn.sources[1]).name
                     = sOut[1].name

\* a label with a marker, capitals and punctuation has been normalized
C12_Witness ==
    /\ sPc = "normalized"
    /\ sIn.obs.hashtag = <<"#","Z","e","d","!">>
    /\ Len(sOut) >= 2
    /\ sOut[2].name = <<"z","e","d">>

MaxOver(S) == CHOOSE x \in S : \A y \in S : y <= x

\* the observations of one key among the first n of the argument list
SeenOf(key, n) == {i \in 1..n : mIn[i].name = key}

\* C13: at every point of the grouping loop and in the returned list, each
\* of the four metric fields of a trend is the maximum of that field over
\* the observations of its key consumed so far
C13_MetricsAreMaxima ==
    LET list == IF mPc = "done" THEN mOut ELSE mGrouped
    IN  \A k \in DOMAIN list :
          LET seen == SeenOf(list[k].name, mPos)
          IN  /\ seen # {}
              /\ list[k].views     = MaxOver({mIn[i].views : i \in seen})
              /\ list[k].growth5h  = MaxOver({mIn[i].growth5h : i \in seen})
              /\ list[k].growth24h = MaxOver({mIn[i].growth24h : i \in seen})
              /\ list[k].growth7d  = MaxOver({mIn[i].growth7d : i \in seen})

\* duplicates with growth24h 40 and 90 have merged to 90
C13_Witness ==
    /\ mPc = "done"
    /\ Len(mIn) = 2
    /\ mIn[1].name = mIn[2].name
    /\ mIn[1].growth24h = 40
    /\ mIn[2].growth24h = 90
    /\ Len(mOut) = 1
    /\ mOut[1].growth24h = 90

\* the weights as the claim lists them, in hundredths
ClaimedWeight(source) ==
    CASE source = "twitter" -> 30
      [] source = "reddit"  -> 25
      [] source = "tiktok"  -> 20
      [] source = "google"  -> 15
      [] source = "4chan"   -> 10
      [] OTHER              -> 10

\* x1.30 from three sources on, x1.15 for two, x1.0 for one, in hundredths
ClaimedSourceBoost(n) ==
    CASE n >= 3 -> 130
      [] n = 2  -> 115
      [] OTHER  -> 100

RECURSIVE SumSeq(_)
SumSeq(q) == IF q = <<>> THEN 0 ELSE Head(q) + SumSeq(Tail(q))

\* C14: the aggregateScore of a merged trend is the mean of the scores of
\* the sources present, weighted by their weights and divided by the sum
\* of only those weights, times the boost for the number of distinct
\* sources (and the category boost), rounded and capped at 100
C14_WeightedMeanAndSourceBoost ==
    (sPc = "merged")
    => LET srcs == sIn.sources
           weights == [k \in DOMAIN srcs |-> ClaimedWeight(srcs[k])]
           weighted == [k \in DOMAIN srcs |->
                           sourceScore(sIn.obs, srcs[k]) * ClaimedWeight(srcs[k])]
           num == SumSeq(weighted) * ClaimedSourceBoost(Cardinality(Range(srcs)))
                                   * categoryBoost(sOut[1].category)
           den == SumSeq(weights) * 1000
       IN  /\ Len(sOut) = 1
           /\ Range(sOut[1].sources) = Range(srcs)
           /\ sOut[1].aggregateScore = 10 * Min(100, RoundDiv(num, den))

\* three sources whose weights add up to 0.65: scores 40, 97 and 30 give
\* (40 x 0.25 + 97 x 0.30 + 30 x 0.10) / 0.65 x 1.3 = 84.2
C14_Witness ==
    /\ sPc = "merged"
    /\ sIn.sources = <<"reddit", "twitter", "4chan">>
    /\ sOut[1].scores = [reddit |-> 40, twitter |-> 97, 4chan |-> 30]
    /\ sOut[1].category = "unknown"
    /\ sOut[1].aggregateScore = 840

\* the observation scored `score` by its one source, with growth24h `growth`
ScoredAs(trend, score, growth) ==
    /\ Len(trend.sources) = 1
    /\ trend.scores[trend.sources[1]] = score
    /\ trend.growth24h = growth

\* an animal term occurs in the label or the keywords of the observation
AnimalKeywordIn(trend) ==
    CategoryMatches(toLowerCase(JoinSpace(<<trend.name>> \o trend.keywords)), "animal")

\* C15: two observations of one label from two different sources, scored
\* 90 with growth24h 500 and 70 with growth24h 300, the label carrying an
\* animal term, merge (in either order) into one trend with exactly two
\* sources, growth24h 500, category animal and the aggregateScore
\* round(weighted mean x 1.15 x 1.4) capped at 100
C15_MoonDogeScenario ==
    (/\ mPc = "done"
     /\ Len(mIn) = 2
     /\ mIn[1].name = mIn[2].name
     /\ mIn[1].sources # mIn[2].sources
     /\ \/ ScoredAs(mIn[1], 90, 500) /\ ScoredAs(mIn[2], 70, 300)
        \/ ScoredAs(mIn[1], 70, 300) /\ ScoredAs(mIn[2], 90, 500)
     /\ AnimalKeywordIn(mIn[1])
     /\ AnimalKeywordIn(mIn[2]))
    => LET a == mIn[1]
           b == mIn[2]
           wa == ClaimedWeight(a.sources[1])
           wb == ClaimedWeight(b.sources[1])
           num == (a.scores[a.sources[1]] * wa + b.scores[b.sources[1]] * wb) * 115 * 14
       IN  /\ Len(mOut) = 1
           /\ Cardinality(Range(mOut[1].sources)) = 2
           /\ Len(mOut[1].sources) = 2
           /\ mOut[1].growth24h = 500
           /\ mOut[1].category = "animal"
           /\ mOut[1].aggregateScore = 10 * Min(100, RoundDiv(num, (wa + wb) * 1000))

\* the MoonDoge observations of the thread board (90, growth 500) and of the
\* short-video source (70, growth 300) have merged
C15_Witness ==
    /\ mPc = "done"
    /\ Len(mIn) = 2
    /\ mIn[1].name = <<"m","o","o","n","d","o","g","e">>
    /\ mIn[2].name = mIn[1].name
    /\ ScoredAs(mIn[1], 70, 300) /\ mIn[1].sources = <<"tiktok">>
    /\ ScoredAs(mIn[2], 90, 500) /\ mIn[2].sources = <<"4chan">>
    /\ Len(mOut) = 1
    /\ mOut[1].sources = <<"tiktok", "4chan">>
    /\ mOut[1].growth24h = 500
    /\ mOut[1].category = "animal"
    /\ mOut[1].aggregateScore = 1000

\* the position at which a key first appears in the argument list
FirstSeen(key) == CHOOSE i \in DOMAIN mIn :
                     /\ mIn[i].name = key
                     /\ \A j \in DOMAIN mIn : mIn[j].name = key => i <= j

\* C16: the returned list holds one trend per key of the argument list,
\* ordered by aggregateScore descending; trends of equal aggregateScore
\* are in the order in which their keys first appeared
C16_SortedStableDescending ==
    (mPc = "done")
    => /\ {mOut[k].name : k \in DOMAIN mOut} = {mIn[i].name : i \in DOMAIN mIn}
       /\ \A i, j \in DOMAIN mOut :
             (i < j) =>
                /\ mOut[i].name # mOut[j].name
                /\ mOut[i].aggregateScore >= mOut[j].aggregateScore
                /\ (mOut[i].aggregateScore = mOut[j].aggregateScore)
                   => FirstSeen(mOut[i].name) < FirstSeen(mOut[j].name)

\* two trends of equal score were returned in encounter order
C16_Witness ==
    /\ mPc = "done"
    /\ Len(mOut) = 2
    /\ mOut[1].aggregateScore = mOut[2].aggregateScore
    /\ mOut[1].name # mOut[2].name
    /\ mOut[1].name = mIn[1].name

\* a trend met later was returned first
C16_WitnessReordered ==
    /\ mPc = "done"
    /\ Len(mOut) = 2
    /\ mOut[1].aggregateScore > mOut[2].aggregateScore
    /\ mOut[1].name = mIn[2].name

\* C17: the fan-out starts the five adapters together (all five promises
\* are pending when the handler starts to wait), the adapters settle in
\* any order, and the handler leaves the wait - to merge or to fail in the
\* merge - only when all five have settled, merging the items of all five
C17_WaitsForAllFive ==
    [][ \A r \in Requests :
          /\ (req[r].pc # "fetching" /\ req'[r].pc = "fetching")
             => \A s \in SourceSet : req'[r].results[s].state = "pending"
          /\ (req[r].pc = "fetching" /\ req'[r].pc = "fetching")
             => \A s \in SourceSet :
                   req[r].results[s].state = "settled" => req'[r].results[s] = req[r].results[s]
          /\ (req[r].pc = "fetching" /\ req'[r].pc # "fetching")
             => /\ \A s \in SourceSet : req[r].results[s].state = "settled"
                /\ req'[r].results = req[r].results
                /\ req'[r].pc = "enriching"
                   => req'[r].trends = mergeAndScore(normalizedInOrder(req[r].results, 1)) ]_vars

\* the last adapter of the list has delivered while the first is still
\* pending, and the handler is still waiting
C17_Witness ==
    \E r \in Requests :
        /\ req[r].pc = "fetching"
        /\ req[r].results["4chan"].state = "settled"
        /\ req[r].results["4chan"].items # <<>>
        /\ req[r].results["tiktok"].state = "pending"
        /\ req[r].trends = <<>>

\* C18: a lookup that returns belongs to the entry right after the ones
\* already looked up and touches no other entry; at most min(10, N)
\* lookups are made, and all of them before the response; an entry not yet
\* looked up, and every entry beyond position 10, has the status and the
\* score the merge gave it
C18_TopTenInRankOrder ==
    /\ [](\A r \in Requests :
            (req[r].pc \in {"enriching", "done"} /\ req[r].raised = "none"
               /\ req[r].fanouts = 1)
            => /\ req[r].i <= Min(10, Len(req[r].trends))
               /\ \A k \in DOMAIN req[r].trends :
                     (k > req[r].i)
                     => /\ req[r].trends[k].memeStatus = "unknown"
                        /\ req[r].trends[k].aggregateScore
                             = 10 * scoreOf(req[r].trends[k])
               /\ (req[r].pc = "done")
                  => /\ req[r].i = Min(10, Len(req[r].trends))
                     /\ req[r].response.body.trends = req[r].trends)
    /\ [][ \A r \in Requests :
             (req[r].pc = "enriching" /\ req'[r].pc = "enriching"
                /\ req'[r] # req[r])
             => /\ req'[r].i = req[r].i + 1
                /\ Len(req'[r].trends) = Len(req[r].trends)
                /\ \A k \in DOMAIN req[r].trends :
                      (k # req'[r].i) => req'[r].trends[k] = req[r].trends[k] ]_vars

\* a list of eleven has been answered: ten lookups, all confirmed, and the
\* eleventh entry as the merge left it
C18_Witness ==
    /\ req[1].pc = "done"
    /\ Len(req[1].response.body.trends) = 11
    /\ req[1].i = 10
    /\ \A k \in 1..10 : req[1].response.body.trends[k].memeStatus = "confirmed"
    /\ req[1].response.body.trends[11].memeStatus = "unknown"
    /\ req[1].response.body.trends[11].aggregateScore = 560

\* the ways a lookup can fail: network error, non-success status, parse error
FailedLookups == {"neterr", "badstatus", "malformed"}

\* C19: a lookup that fails leaves the list as it was and the loop goes on
\* with the next entry; no run is answered by the catch block because of a
\* lookup; the run is answered 200 with success true after all min(10, N)
\* lookups; an entry whose lookup failed has the status unknown and the
\* score the merge gave it
C19_LookupFailureSwallowed ==
    /\ [](\A r \in Requests :
            (req[r].pc \in {"enriching", "done"} /\ req[r].fanouts = 1)
            => /\ req[r].raised = "none"
               /\ \A k \in 1..req[r].i :
                     (req[r].trends[k].memeStatus \notin {"submission", "confirmed"})
                     => /\ req[r].trends[k].memeStatus = "unknown"
                        /\ req[r].trends[k].aggregateScore
                             = 10 * scoreOf(req[r].trends[k])
               /\ (req[r].pc = "done")
                  => /\ req[r].response.status = 200
                     /\ req[r].response.body.success
                     /\ req[r].response.body.trends = req[r].trends
                     /\ req[r].i = Min(10, Len(req[r].trends)))
    /\ [][ \A r \in Requests : \A reply \in FailedLookups :
             Lookup(r, reply)
             => /\ req'[r].trends = req[r].trends
                /\ req'[r].pc = "enriching"
                /\ req'[r].i = req[r].i + 1 ]_vars

\* the first lookup failed, the second one confirmed its entry, and the run
\* was answered
C19_Witness ==
    /\ req[1].pc = "done"
    /\ req[1].response.status = 200
    /\ Len(req[1].response.body.trends) >= 2
    /\ req[1].response.body.trends[1].memeStatus = "unknown"
    /\ req[1].response.body.trends[1].aggregateScore = 960
    /\ req[1].response.body.trends[2].memeStatus = "confirmed"

\* C20: an entry that has been looked up has 1.2 times the score the merge
\* gave it, capped at 100, when the lookup said confirmed, and exactly the
\* score of the merge when it said submission or gave no result
\* (aggregateScore is kept in tenths; the product is not rounded)
C20_ConfirmedBoostOnce ==
    \A r \in Requests :
        (req[r].pc \in {"enriching", "done"} /\ req[r].fanouts = 1
           /\ req[r].raised = "none")
        => \A k \in 1..req[r].i :
              LET trend == req[r].trends[k]
                  mergedScore == scoreOf(trend)
              IN  /\ trend.memeStatus \in {"confirmed", "submission", "unknown"}
                  /\ (trend.memeStatus = "confirmed")
                     => trend.aggregateScore = Min(1000, 12 * mergedScore)
                  /\ (trend.memeStatus # "confirmed")
                     => trend.aggregateScore = 10 * mergedScore

\* of three looked-up entries the confirmed first one is capped at 100, the
\* confirmed sixth one went from 76 to 91.2, the submitted second one kept 92
C20_Witness ==
    /\ req[1].pc = "done"
    /\ Len(req[1].trends) >= 6
    /\ req[1].trends[1].memeStatus = "confirmed"
    /\ req[1].trends[1].aggregateScore = 1000
    /\ req[1].trends[2].memeStatus = "submission"
    /\ req[1].trends[2].aggregateScore = 920
    /\ req[1].trends[6].memeStatus = "confirmed"
    /\ req[1].trends[6].aggregateScore = 912

\* ---------------------------------------------------------------------
\* C21  Cold start of the short-video adapter: when the scraper-run API
\* answers 404 (no last run), the call of fetchTikTokTrends posts exactly one
\* new scraper run and settles in that same call with the empty list: it
\* hands out no placeholder trends and does not stay pending until the new
\* run has results.  No invocation ever posts more than one run, and one
\* that posted a run contributes no short-video trend.
C21_ColdStartStep ==
    \A u \in ColdStarts :
        SettleAdapter(1, "tiktok", u) =>
            /\ req[1]'.posts = req[1].posts + 1
            /\ req[1]'.results["tiktok"] =
                   [state |-> "settled", failed |-> FALSE, items |-> <<>>]
            /\ req[1]'.raised = "none"

C21_ColdStartPostsOnceReturnsEmpty ==
    /\ [](\A r \in Requests :
            /\ req[r].posts <= 1
            /\ (req[r].posts = 1) =>
                   /\ req[r].results["tiktok"].state = "settled"
                   /\ req[r].results["tiktok"].items = <<>>
            /\ (req[r].results["tiktok"].items # <<>>) => req[r].posts = 0)
    /\ [][C21_ColdStartStep]_vars

\* a cold-start invocation that was answered: one run posted, the run now
\* exists, and the response was built without any short-video trend
C21_Witness ==
    /\ req[1].posts = 1
    /\ scraperRun = "present"
    /\ req[1].results["tiktok"].items = <<>>
    /\ req[1].response.status = 200
    /\ req[1].response.body.trends # <<>>

\* ---------------------------------------------------------------------
\* C22  detectCategory looks for the terms of the categories animal, ai,
\* absurdist, crypto, in that order, in the lowercased text made of the
\* identity key followed by the keywords: the category of a normalized
\* trend is the first of the four that has a term occurring in that text
\* (so the earlier one wins when several match), and "unknown" exactly when
\* no category has one.
TermOccurs(text, category) ==
    \E t \in Range(CATEGORY_KEYWORDS[category]) : Includes(text, t)

C22_FirstDeclaredCategoryWins ==
    (sPc = "normalized")
    => \A k \in DOMAIN sOut :
         LET text  == toLowerCase(JoinSpace(<<sOut[k].name>> \o sIn.obs.keywords))
             order == <<"animal", "ai", "absurdist", "crypto">>
             c     == sOut[k].category
         IN  /\ (c = "unknown") <=> (\A i \in 1..4 : ~TermOccurs(text, order[i]))
             /\ (c # "unknown") =>
                    \E i \in 1..4 :
                       /\ c = order[i]
                       /\ TermOccurs(text, order[i])
                       /\ \A j \in 1..(i - 1) : ~TermOccurs(text, order[j])

\* a label with terms of two categories, none of them the first declared:
\* "aicoin" has "ai" and "coin" and is filed under ai
C22_Witness ==
    /\ sPc = "normalized"
    /\ sOut[1].category = "ai"
    /\ TermOccurs(sOut[1].name, "crypto")
    /\ ~TermOccurs(sOut[1].name, "animal")

\* ---------------------------------------------------------------------
\* C23  Deduplication: the list mergeAndScore returns has exactly one trend
\* for every identity key that occurs in its input: every key of the input
\* is the key of an output, no key of an output is absent from the input,
\* and no two outputs have the same key, whichever sources reported them.
NamesOf(trends) == {trends[i].name : i \in DOMAIN trends}

C23_OneTrendPerIdentityKey ==
    (mPc = "done")
    => /\ NamesOf(mOut) = NamesOf(mIn)
       /\ \A i, j \in DOMAIN mOut : (mOut[i].name = mOut[j].name) => i = j
       /\ Len(mOut) = Cardinality(NamesOf(mIn))

\* two observations with the same key from different sources became one trend
C23_Witness ==
    /\ mPc = "done"
    /\ Len(mIn) = 2
    /\ mIn[1].name = mIn[2].name
    /\ mIn[1].sources # mIn[2].sources
    /\ Len(mOut) = 1
    /\ mOut[1].sources = mIn[1].sources \o mIn[2].sources

\* ---------------------------------------------------------------------
\* C24  During the grouping loop the sources of a group only grow: an
\* iteration leaves every group in place with the sources it had, in the
\* same order, and appends the incoming source to the group of its key only
\* if that group does not list it yet; no group lists a source twice.
IsPrefix(p, q) == Len(p) <= Len(q) /\ SubSeq(q, 1, Len(p)) = p

C24_GroupStep ==
    GroupNext =>
        LET trend == mIn[mPos + 1]
        IN  /\ Len(mGrouped') >= Len(mGrouped)
            /\ \A i \in DOMAIN mGrouped :
                  LET before == mGrouped[i].sources
                      after  == mGrouped'[i].sources
                  IN  /\ mGrouped'[i].name = mGrouped[i].name
                      /\ IsPrefix(before, after)
                      /\ after = IF /\ mGrouped[i].name = trend.name
                                    /\ trend.sources[1] \notin Range(before)
                                 THEN Append(before, trend.sources[1])
                                 ELSE before

C24_SourcesOnlyGrow ==
    /\ [](\A i \in DOMAIN mGrouped :
            \A a, b \in DOMAIN mGrouped[i].sources :
               (mGrouped[i].sources[a] = mGrouped[i].sources[b]) => a = b)
    /\ [][C24_GroupStep]_vars

\* a group that started with one source and was given a second one
C24_Witness ==
    /\ mPc = "grouping"
    /\ mPos = 2
    /\ Len(mGrouped) = 1
    /\ Len(mGrouped[1].sources) = 2
    /\ mGrouped[1].sources[1] = mIn[1].sources[1]
    /\ mGrouped[1].sources[2] = mIn[2].sources[1]

\* ---------------------------------------------------------------------
\* C25  The twitter score that normalizeTrend records is
\* max(0, 100 - 3 * rank), times 1.3 for a cashtag, times 1.1 for a hashtag
\* (both factors when both flags are set), capped at 100 and rounded; under
\* a source tag that is none of the five the recorded score is 50.
ClaimedTwitterScore(rank, isCashtag, isHashtag) ==
    LET linear  == IF 100 - 3 * rank < 0 THEN 0 ELSE 100 - 3 * rank
        \* the product of the factors, in hundredths
        factor  == CASE isCashtag /\ isHashtag   -> 143
                     [] isCashtag /\ ~isHashtag  -> 130
                     [] ~isCashtag /\ isHashtag  -> 110
                     [] OTHER                    -> 100
        rounded == RoundDiv(linear * factor, 100)
    IN  IF rounded > 100 THEN 100 ELSE rounded

C25_TwitterScoreAndNeutralDefault ==
    (sPc = "normalized")
    => /\ \A k \in DOMAIN sOut :
             (sIn.sources[k] = "twitter")
             => sOut[k].scores["twitter"] =
                  ClaimedTwitterScore(sIn.obs.rank, sIn.obs.isCashtag, sIn.obs.isHashtag)
       /\ \A c, h \in BOOLEAN :
             normalizeTrend([sIn.obs EXCEPT !.isCashtag = c, !.isHashtag = h],
                            "twitter").scores["twitter"]
               = ClaimedTwitterScore(sIn.obs.rank, c, h)
       /\ normalizeTrend(sIn.obs, "mastodon").scores = ("mastodon" :> 50)

\* a cashtag at rank 7: 79 * 1.3 is above 100 and the recorded score is 100
C25_Witness ==
    /\ sPc = "normalized"
    /\ sIn.sources = <<"twitter">>
    /\ sIn.obs.isCashtag
    /\ 13 * (100 - 3 * sIn.obs.rank) > 1000
    /\ sOut[1].scores["twitter"] = 100

\* ---------------------------------------------------------------------
\* C26  The trends of every successful response are in non-increasing
\* order of aggregateScore, also when the enrichment has boosted some of
\* the first ten entries.
C26_ResponseSortedByScore ==
    \A r \in Requests :
        (req[r].response.status = 200)
        => LET trends == req[r].response.body.trends
           IN  \A k \in 1..(Len(trends) - 1) :
                  trends[k].aggregateScore >= trends[k + 1].aggregateScore

\* ---------------------------------------------------------------------
\* C27  A request that is answered 500 makes no cache write: it has no
\* cache.put, started or settled, and no step in which it takes part
\* changes the cache entry; whatever payload the cache holds has
\* success = true.
C27_FailedRequestStep ==
    \A r \in Requests :
        (/\ req[r]' # req[r]
         /\ (req[r].response.status = 500 \/ req[r]'.response.status = 500))
        => cache' = cache

C27_FailedRunWritesNothing ==
    /\ [](\A r \in Requests :
            (req[r].response.status = 500) => (req[r].put = "none" /\ ~req[r].kept))
    /\ [](cache.present => cache.payload.success = TRUE)
    /\ [][C27_FailedRequestStep]_vars

\* a run has failed in the pipeline while an entry was stored, and the
\* entry is still the successful payload
C27_Witness ==
    \E r \in Requests :
        /\ req[r].response.status = 500
        /\ req[r].raised = "pipeline"
        /\ cache.present
        /\ cache.payload.success = TRUE
        /\ cache.payload.trends # <<>>

\* ---------------------------------------------------------------------
\* C28  A request answered as a cache hit has called no adapter, made no
\* enrichment lookup and started no cache.put; its body is the payload that
\* cache.match returned, which was the live entry at that moment, and none
\* of its steps from the lookup to the answer changes the cache.
C28_HitStep ==
    \A r \in Requests :
        (req[r].pc \in {"matching", "decoding"} /\ req[r]' # req[r])
        => /\ cache' = cache
           /\ (req[r]'.pc = "decoding")
              => (CacheLive /\ req[r]'.cached = cache.payload)
           /\ (req[r]'.response.xcache = "HIT")
              => (req[r]'.response.body = req[r].cached)

C28_HitDoesNoWork ==
    /\ [](\A r \in Requests :
            (req[r].response.xcache = "HIT")
            => /\ req[r].response.status = 200
               /\ req[r].response.body = req[r].cached
               /\ req[r].fanouts = 0
               /\ req[r].posts = 0
               /\ \A s \in SourceSet : req[r].results[s] = Unsettled
               /\ req[r].i = 0
               /\ req[r].trends = <<>>
               /\ req[r].put = "none"
               /\ ~req[r].kept)
    /\ [][C28_HitStep]_vars

\* a hit was answered with the stored trends and the entry is still there
C28_Witness ==
    \E r \in Requests :
        /\ req[r].response.xcache = "HIT"
        /\ req[r].response.body.trends # <<>>
        /\ cache.present
        /\ cache.payload = req[r].response.body

\* ---------------------------------------------------------------------
\* C29  A request with nocache=1 whose run completes has started the
\* cache.put of its result under the one cache key; when that put completes
\* the entry is exactly this result with a fresh max-age, whatever was
\* stored before; and a request without nocache that looks the cache up
\* while this entry is live is answered with it as a hit.
StoredBy(r) ==
    /\ req[r].put = "stored"
    /\ cache = [present |-> TRUE, age |-> cache.age, payload |-> req[r].response.body]
    /\ CacheLive

C29_BypassStep ==
    \A r \in Requests :
        /\ (req[r].skipCache /\ req[r].put = "pending" /\ req[r]'.put = "stored")
           => cache' = [present |-> TRUE, age |-> 0, payload |-> req[r].response.body]
        /\ (req[r].skipCache /\ StoredBy(r))
           => \A q \in Requests :
                 /\ (req[q].pc = "matching" /\ req[q]'.pc # "matching"
                       /\ req[q]'.raised = "none")
                    => /\ req[q]'.pc = "decoding"
                       /\ req[q]'.cached = req[r].response.body
                       /\ req[q]'.fanouts = 0
                 /\ (req[q].pc = "decoding" /\ req[q]'.response.status = 200)
                    => /\ req[q]'.response.xcache = "HIT"
                       /\ req[q]'.response.body = req[q].cached

NothingDelivered(r) ==
    /\ req[r].pc = "done"
    /\ req[r].raised = "none"
    /\ req[r].fanouts = 1
    /\ \A s \in SourceSet : req[r].results[s].state = "settled"
                            /\ req[r].results[s].items = <<>>

EmptyEntryLive ==
    /\ CacheLive
    /\ cache.payload.success
    /\ cache.payload.trends = <<>>

C30_EmptyStep ==
    /\ \A r \in Requests :
          (NothingDelivered(r) /\ req[r].put = "pending" /\ req[r]'.put = "stored")
          => /\ cache'.present
             /\ cache'.age = 0
             /\ cache'.payload.success
             /\ cache'.payload.trends = <<>>
    /\ EmptyEntryLive
       => \A q \in Requests :
             /\ (req[q].pc = "matching" /\ req[q]'.pc # "matching"
                   /\ req[q]'.raised = "none")
                => /\ req[q]'.pc = "decoding"
                   /\ req[q]'.cached = cache.payload
                   /\ req[q]'.fanouts = 0
                   /\ \A s \in SourceSet : req[q]'.results[s] = Unsettled
             /\ (req[q].pc = "decoding" /\ req[q]'.response.status = 200
                   /\ req[q].cached.trends = <<>>)
                => /\ req[q]'.response.xcache = "HIT"
                   /\ req[q]'.response.body.success
                   /\ req[q]'.response.body.trends = <<>>
                   /\ req[q]'.fanouts = 0

====
